---- MODULE Spec2Model ----
(***************************************************************************)
(* Model of scripts/python/run_dotnet.py: the coverage union              *)
(* (parse_cobertura_union), the threshold gate and the audited coverage   *)
(* override of main().                                                     *)
(*                                                                         *)
(* The specifications share the definitions below:                         *)
(*   UnionSpec  parse_cobertura_union applied to bounded lists of reports, *)
(*              one step per <line> element;                               *)
(*   Spec       invocations of main() one after another (process 1);       *)
(*   ConcSpec   two invocations of main() that reached the override        *)
(*              decision at the same time and share the audit log;         *)
(*   GateSpec   as Spec, with more coverage minima and with reports whose  *)
(*              line and branch percentages differ;                        *)
(*   AllowSpec  as Spec, with more values of COVERAGE_OVERRIDE_ALLOW.      *)
(*                                                                         *)
(* Percentages are kept as integer hundredths of a percent (82.69% is      *)
(* 8269): round(x, 2) yields exactly such values.                          *)
(***************************************************************************)
EXTENDS Integers, Sequences, FiniteSets

\* ------------------------------------------------------------- bounds
\* Most <line> elements in all reports of one aggregation together.
MaxFacts == 2
\* Most reports in one aggregation.
MaxReports == 2
\* Most test targets of one invocation of main().
MaxTargets == 2
\* Most invocations of main() in a row.
MaxRuns == 2

\* ------------------------------------------------------------ helpers
Max(a, b) == IF a >= b THEN a ELSE b

RECURSIVE SumOver(_, _)
\* sum(f[k] for k in S)
SumOver(S, f) ==
    IF S = {} THEN 0
    ELSE LET k == CHOOSE x \in S : TRUE IN f[k] + SumOver(S \ {k}, f)

\* dict d with d[key] = val
DictPut(d, key, val) ==
    [k \in (DOMAIN d) \cup {key} |-> IF k = key THEN val ELSE d[k]]

\* d.get(key, default)
DictGet(d, key, default) == IF key \in DOMAIN d THEN d[key] ELSE default

EmptyHits == [k \in {} |-> FALSE]
EmptyCounts == [k \in {} |-> <<0, 0>>]

\* ------------------------------------------------- cobertura reports
\* The condition-coverage attribute of a <line>: absent, a text _CC_RE does
\* not match, or a text holding "(covered/valid)".
NoCC == [text |-> "absent", covered |-> 0, valid |-> 0]
BadCC == [text |-> "nomatch", covered |-> 0, valid |-> 0]
CC(c, v) == [text |-> "match", covered |-> c, valid |-> v]

\* _CC_RE.search(cc): <<>> for no match, <<(covered, valid)>> for a match.
CCSearch(cc) ==
    IF cc.text = "match" THEN << <<cc.covered, cc.valid>> >> ELSE <<>>

\* str(s).lower()
Lower(s) == IF s = "True" THEN "true" ELSE s

\* The attributes a <line> element carries besides its number.
Payloads ==
    { [hits |-> 0, branch |-> "false", cc |-> NoCC],
      [hits |-> 1, branch |-> "false", cc |-> NoCC],
      [hits |-> 1, branch |-> "True", cc |-> CC(1, 2)],
      [hits |-> 2, branch |-> "true", cc |-> CC(2, 2)],
      [hits |-> 1, branch |-> "true", cc |-> CC(1, 3)],
      [hits |-> 1, branch |-> "true", cc |-> BadCC] }

Files == {"a.cs"}

LineEl(f, n, pay) ==
    [filename |-> f, number |-> n, hits |-> pay.hits, branch |-> pay.branch,
     cc |-> pay.cc]

\* The number attribute of a <line>; 0 is one the code skips.
LineNumbers == 0..2

\* <line> elements; number 0 comes with one payload.
LineEls ==
    { LineEl(f, n, pay) : f \in Files, n \in LineNumbers \ {0}, pay \in Payloads }
    \cup { LineEl(f, 0, [hits |-> 1, branch |-> "false", cc |-> NoCC]) : f \in Files }

\* The <line> elements the text of a malformed file holds.
BrokenFileLineEls ==
    { LineEl(f, n, [hits |-> 2, branch |-> "true", cc |-> CC(2, 2)]) :
        f \in Files, n \in LineNumbers \ {0} }

\* A report file: well formed with its <line> elements in document order,
\* or one ET.parse raises on, whatever <line> elements its text holds.
Report(ls) == [ok |-> TRUE, lines |-> ls]
Malformed == [ok |-> FALSE, lines |-> <<>>]

\* ET.parse(p): << the <line> elements of the tree >>, or <<>> when it raises.
ETParseLenient(r) == << r.lines >>
ETParse(r) == IF r.ok THEN << r.lines >> ELSE <<>>

\* Line 145: the entry of the errors list for path p.
ErrorEntry(p) == [path |-> p]

\* ------------------------------------------- parse_cobertura_union
\* line_hits[key] = prev or (hits > 0)
MergeHitLast(prev, hits) == hits > 0
MergeHit(prev, hits) == prev \/ (hits > 0)

\* branch_counts[key] = (max(prev_cov, covered), max(prev_valid, valid))
MergeBranchSum(prev, covered, valid) == <<prev[1] + covered, prev[2] + valid>>
MergeBranchLast(prev, covered, valid) == <<covered, valid>>
MergeBranchByCovered(prev, covered, valid) ==
    IF covered > prev[1] THEN <<covered, valid>> ELSE prev
MergeBranch(prev, covered, valid) ==
    <<Max(prev[1], covered), Max(prev[2], valid)>>

\* One pass of the body of "for line_el in class_el.findall('.//line')" on
\* the accumulator acc = [line_hits, branch_counts].
MergeLine(acc, el) ==
    IF el.filename = "" \/ el.number <= 0 THEN acc
    ELSE LET key == <<el.filename, el.number>>
             hit == MergeHit(DictGet(acc.line_hits, key, FALSE), el.hits)
             m == IF Lower(el.branch) = "true" /\ el.cc.text # "absent"
                  THEN CCSearch(el.cc) ELSE <<>>
         IN [line_hits |-> DictPut(acc.line_hits, key, hit),
             branch_counts |->
                 IF m = <<>> THEN acc.branch_counts
                 ELSE DictPut(acc.branch_counts, key,
                              MergeBranch(DictGet(acc.branch_counts, key, <<0, 0>>),
                                          m[1][1], m[1][2]))]

\* round(num * 100.0 / den, 2) in hundredths of a percent, 0.0 for den = 0.
\* round() rounds the double to the nearest hundredth; an exact tie (a
\* quotient j/8, which needs den to be a multiple of 32) goes to the even
\* neighbour.
Round2Inverse(num, den) ==
    IF den <= 0 \/ num <= 0 THEN 0
    ELSE LET n == den * 10000
             f == n \div num
             r == n % num
         IN IF 2 * r > num THEN f + 1
            ELSE IF 2 * r < num THEN f
            ELSE IF f % 2 = 0 THEN f ELSE f + 1
Round2FullWhenEmpty(num, den) ==
    IF den <= 0 THEN 10000
    ELSE LET n == num * 10000
             f == n \div den
             r == n % den
         IN IF 2 * r > den THEN f + 1
            ELSE IF 2 * r < den THEN f
            ELSE IF f % 2 = 0 THEN f ELSE f + 1
Round2(num, den) ==
    IF den <= 0 THEN 0
    ELSE LET n == num * 10000
             f == n \div den
             r == n % den
         IN IF 2 * r > den THEN f + 1
            ELSE IF 2 * r < den THEN f
            ELSE IF f % 2 = 0 THEN f ELSE f + 1

\* The dict parse_cobertura_union returns for an accumulator and its errors.
Snapshot(acc, errs) ==
    LET lv == Cardinality(DOMAIN acc.line_hits)
        lc == Cardinality({k \in DOMAIN acc.line_hits : acc.line_hits[k]})
        bv == SumOver(DOMAIN acc.branch_counts,
                      [k \in DOMAIN acc.branch_counts |-> acc.branch_counts[k][2]])
        bc == SumOver(DOMAIN acc.branch_counts,
                      [k \in DOMAIN acc.branch_counts |-> acc.branch_counts[k][1]])
    IN [lines_covered |-> lc, lines_valid |-> lv,
        branches_covered |-> bc, branches_valid |-> bv,
        line_pct |-> Round2(lc, lv), branch_pct |-> Round2(bc, bv),
        errors |-> errs]

RECURSIVE MergeLines(_, _, _)
\* The <line> elements ls[i..] of one report merged into acc.
MergeLines(acc, ls, i) ==
    IF i > Len(ls) THEN acc ELSE MergeLines(MergeLine(acc, ls[i]), ls, i + 1)

RECURSIVE UnionFrom(_, _, _, _)
\* The loop "for p in paths" from index i on.
UnionFrom(ps, i, acc, errs) ==
    IF i > Len(ps) THEN Snapshot(acc, errs)
    ELSE IF ETParse(ps[i]) # <<>>
         THEN UnionFrom(ps, i + 1, MergeLines(acc, ETParse(ps[i])[1], 1), errs)
         ELSE UnionFrom(ps, i + 1, acc, Append(errs, ErrorEntry(i)))

EmptyAcc == [line_hits |-> EmptyHits, branch_counts |-> EmptyCounts]

parse_cobertura_union(ps) == UnionFrom(ps, 1, EmptyAcc, <<>>)

\* The six numbers of a snapshot (the errors list left out).
Numbers(s) ==
    <<s.lines_valid, s.lines_covered, s.branches_valid, s.branches_covered,
      s.line_pct, s.branch_pct>>

\* ============================================================ state
Procs == {1, 2}

VARIABLES
    \* parse_cobertura_union, stepped (UnionSpec)
    u_pc,            \* "off", "loop", "lines", "done"
    paths,           \* the argument: a list of reports
    p_idx,           \* index in paths of the report p at hand
    l_idx,           \* index of the next <line> element of that report
    line_hits,       \* dict (filename, number) -> bool
    branch_counts,   \* dict (filename, number) -> (covered, valid)
    errors,          \* list of {"path": ...}
    out,             \* <<>> until the function returns, then <<its dict>>
    \* main(), per process
    pc,              \* position of the process in main()
    run_no,          \* invocations started by the process so far
    environ,         \* os.environ of the process
    targets_left,    \* targets the test loop has still to run
    combined_rc,
    rc,              \* return code of the last run_cmd
    cobertura_paths,
    coverage,        \* <<>> for None, else <<dict>>
    threshold_ok,
    status,
    override_used,
    override_record, \* <<>> until built, then <<dict>>
    f_pos,           \* file position of the open audit log handle
    audit_error,     \* an exception left the audit append
    summary,         \* the summary dict
    stdout,          \* status values of the RUN_DOTNET lines printed
    exit_code,       \* <<>> while running, then <<code>>
    log_at_start,    \* the audit log as it was when the invocation began
    \* files shared by all invocations
    audit_log,       \* logs/ci/<date>/coverage-override.jsonl
    summary_json     \* logs/unit/<date>/summary.json: <<>> or <<dict>>

union_vars == <<u_pc, paths, p_idx, l_idx, line_hits, branch_counts, errors, out>>
local_vars ==
    <<pc, run_no, environ, targets_left, combined_rc, rc,
      cobertura_paths, coverage,
      threshold_ok, status, override_used, override_record, f_pos, audit_error,
      summary, stdout, exit_code, log_at_start>>
file_vars == <<audit_log, summary_json>>
vars == <<union_vars, local_vars, file_vars>>

\* ============================ parse_cobertura_union, step by step
UnionOff ==
    /\ u_pc = "off"
    /\ paths = <<>>
    /\ p_idx = 1
    /\ l_idx = 1
    /\ line_hits = EmptyHits
    /\ branch_counts = EmptyCounts
    /\ errors = <<>>
    /\ out = <<>>

\* The caller has not called yet: it is putting the list of paths together.
UnionInput ==
    /\ u_pc = "input"
    /\ paths = <<>>
    /\ p_idx = 1
    /\ l_idx = 1
    /\ line_hits = EmptyHits
    /\ branch_counts = EmptyCounts
    /\ errors = <<>>
    /\ out = <<>>

RECURSIVE Facts(_)
\* The number of <line> elements in the reports of ps.
Facts(ps) == IF ps = <<>> THEN 0 ELSE Len(Head(ps).lines) + Facts(Tail(ps))

\* One more path in the list: a well-formed report or a malformed file, both
\* without lines yet.
AddReport ==
    /\ u_pc = "input"
    /\ Len(paths) < MaxReports
    /\ \E r \in {Report(<<>>), Malformed} : paths' = Append(paths, r)
    /\ UNCHANGED <<local_vars, file_vars, u_pc, p_idx, l_idx, line_hits,
                   branch_counts, errors, out>>

\* One more <line> element in the text of the last file of the list.
AddLine ==
    /\ u_pc = "input"
    /\ paths # <<>>
    /\ Facts(paths) < MaxFacts
    /\ \E el \in (IF paths[Len(paths)].ok THEN LineEls ELSE BrokenFileLineEls) :
          paths' = [paths EXCEPT ![Len(paths)].lines = Append(@, el)]
    /\ UNCHANGED <<local_vars, file_vars, u_pc, p_idx, l_idx, line_hits,
                   branch_counts, errors, out>>

\* Lines 95-107: the call, with empty accumulators.
UnionCall ==
    /\ u_pc = "input"
    /\ u_pc' = "loop"
    /\ UNCHANGED <<local_vars, file_vars, paths, p_idx, l_idx, line_hits,
                   branch_counts, errors, out>>

Acc == [line_hits |-> line_hits, branch_counts |-> branch_counts]

\* Lines 111-119: ET.parse(p) succeeds; with no <line> in the file the loop
\* goes on to the next path.
ParseOk ==
    /\ u_pc = "loop"
    /\ p_idx <= Len(paths)
    /\ ETParse(paths[p_idx]) # <<>>
    /\ IF ETParse(paths[p_idx])[1] = <<>>
       THEN /\ p_idx' = p_idx + 1
            /\ UNCHANGED <<u_pc, l_idx>>
       ELSE /\ u_pc' = "lines"
            /\ l_idx' = 1
            /\ UNCHANGED p_idx
    /\ UNCHANGED <<local_vars, file_vars, paths, line_hits, branch_counts, errors, out>>

\* Lines 144-145: ET.parse(p) raises; the error is kept with the path.
ParseError ==
    /\ u_pc = "loop"
    /\ p_idx <= Len(paths)
    /\ ETParse(paths[p_idx]) = <<>>
    /\ errors' = Append(errors, ErrorEntry(p_idx))
    /\ p_idx' = p_idx + 1
    /\ UNCHANGED <<local_vars, file_vars, u_pc, paths, l_idx, line_hits, branch_counts, out>>

\* Lines 119-143: one <line> element; after the last one, the next path.
MergeLineStep ==
    /\ u_pc = "lines"
    /\ l_idx <= Len(paths[p_idx].lines)
    /\ LET acc == MergeLine(Acc, paths[p_idx].lines[l_idx])
       IN /\ line_hits' = acc.line_hits
          /\ branch_counts' = acc.branch_counts
    /\ IF l_idx = Len(paths[p_idx].lines)
       THEN /\ u_pc' = "loop"
            /\ p_idx' = p_idx + 1
            /\ l_idx' = 1
       ELSE /\ l_idx' = l_idx + 1
            /\ UNCHANGED <<u_pc, p_idx>>
    /\ UNCHANGED <<local_vars, file_vars, paths, errors, out>>

\* Lines 147-165: the totals and the returned dict.
UnionReturn ==
    /\ u_pc = "loop"
    /\ p_idx > Len(paths)
    /\ out' = << Snapshot(Acc, errors) >>
    /\ u_pc' = "done"
    /\ UNCHANGED <<local_vars, file_vars, paths, p_idx, l_idx, line_hits, branch_counts, errors>>

UnionNext ==
    \/ AddReport
    \/ AddLine
    \/ UnionCall
    \/ ParseOk
    \/ ParseError
    \/ MergeLineStep
    \/ UnionReturn

\* =========================================================== main()
\* ---- text: a str is a sequence of tokens, " " being white space
RECURSIVE LStrip(_)
LStrip(s) == IF s # <<>> /\ Head(s) = " " THEN LStrip(Tail(s)) ELSE s

RECURSIVE RStrip(_)
RStrip(s) ==
    IF s # <<>> /\ s[Len(s)] = " " THEN RStrip(SubSeq(s, 1, Len(s) - 1)) ELSE s

\* s.strip()
Strip(s) == RStrip(LStrip(s))

\* ---- os.environ
\* A variable that is not set; os.environ.get(name) is then None.
Unset == [set |-> FALSE, val |-> <<>>]
Str(s) == [set |-> TRUE, val |-> s]

\* os.environ.get(name, default)
EnvGetNoDefault(v, default) == v.val
EnvGet(v, default) == IF v.set THEN v.val ELSE default

\* Python truth of os.environ.get(name): neither None nor "".
Truthy(v) == v.set /\ v.val # <<>>

LinesMinEnv == { Unset, Str(<<>>), Str(<<"50">>), Str(<<"abc">>) }
BranchesMinEnv == { Unset, Str(<<>>) }
OverrideAllowEnv ==
    { Unset, Str(<<"0">>), Str(<<" ", "false">>), Str(<<"1">>), Str(<<" ", "true", " ">>) }
OverrideReasonEnv ==
    { Unset, Str(<<>>), Str(<<" ">>), Str(<<"k">>), Str(<<" ", "k", "k", " ">>) }

Environs ==
    [COVERAGE_LINES_MIN : LinesMinEnv,
     COVERAGE_BRANCHES_MIN : BranchesMinEnv,
     COVERAGE_OVERRIDE_ALLOW : OverrideAllowEnv,
     COVERAGE_OVERRIDE_REASON : OverrideReasonEnv]

\* Lines 318-319 and 340-341.
lines_min(p) == EnvGet(environ[p].COVERAGE_LINES_MIN, <<"90">>)
branches_min(p) == EnvGet(environ[p].COVERAGE_BRANCHES_MIN, <<"85">>)
override_allow(p) == environ[p].COVERAGE_OVERRIDE_ALLOW
override_reason(p) == environ[p].COVERAGE_OVERRIDE_REASON

\* float(s) in hundredths: <<>> stands for ValueError.
Float(s) ==
    LET t == Strip(s)
    IN IF t = <<"0">> THEN <<0>>
       ELSE IF t = <<"50">> THEN <<5000>>
       ELSE IF t = <<"66.67">> THEN <<6667>>
       ELSE IF t = <<"85">> THEN <<8500>>
       ELSE IF t = <<"90">> THEN <<9000>>
       ELSE IF t = <<"100">> THEN <<10000>>
       ELSE IF t = <<"101">> THEN <<10100>>
       ELSE IF t = <<"-1">> THEN <<-100>>
       ELSE <<>>

\* ---- what dotnet leaves behind
RestoreRcs == {0, 1}
\* Return codes of one "dotnet test"; 124 is run_cmd's code for a timeout.
TestRcs == {0, 1, 124}

ReportLow ==
    Report(<< LineEl("a.cs", 1, [hits |-> 1, branch |-> "true", cc |-> CC(1, 2)]),
              LineEl("a.cs", 2, [hits |-> 0, branch |-> "false", cc |-> NoCC]) >>)
ReportHigh ==
    Report(<< LineEl("a.cs", 1, [hits |-> 3, branch |-> "true", cc |-> CC(2, 2)]),
              LineEl("a.cs", 2, [hits |-> 1, branch |-> "false", cc |-> NoCC]) >>)

\* The coverage.cobertura.xml files os.walk finds under one results_dir.
FoundReports == { <<>>, <<ReportLow>>, <<ReportHigh>> }

\* ---- lines 320-328: the gate
\* Lines 323-324 (axis = line) and 325-326 (axis = branch): the value of
\* threshold_ok after the axis, or <<>> when float() raises.
\* "and" leaves float() unevaluated once threshold_ok is False.
GateAxisExclusive(ok, pct, min) ==
    IF min = <<>> THEN <<ok>>
    ELSE IF ~ok THEN <<FALSE>>
    ELSE IF Float(min) = <<>> THEN <<>>
    ELSE << pct > Float(min)[1] >>
GateAxis(ok, pct, min) ==
    IF min = <<>> THEN <<ok>>
    ELSE IF ~ok THEN <<FALSE>>
    ELSE IF Float(min) = <<>> THEN <<>>
    ELSE << pct >= Float(min)[1] >>

\* threshold_ok as line 329 stores it.
ThresholdOkEmptyIsDefault(cov, lmin, bmin) ==
    IF cov = <<>> THEN TRUE
    ELSE LET a == GateAxis(TRUE, cov[1].line_pct,
                           IF lmin = <<>> THEN <<"90">> ELSE lmin)
         IN IF a = <<>> THEN TRUE
            ELSE LET b == GateAxis(a[1], cov[1].branch_pct,
                                   IF bmin = <<>> THEN <<"85">> ELSE bmin)
                 IN IF b = <<>> THEN a[1] ELSE b[1]
ThresholdOk(cov, lmin, bmin) ==
    IF cov = <<>> \/ (lmin = <<>> /\ bmin = <<>>) THEN TRUE
    ELSE LET a == GateAxis(TRUE, cov[1].line_pct, lmin)
         IN IF a = <<>> THEN TRUE
            ELSE LET b == GateAxis(a[1], cov[1].branch_pct, bmin)
                 IN IF b = <<>> THEN a[1] ELSE b[1]

\* Lines 330-333: summary['thresholds']; <<>> stands for None (JSON null).
ThresholdsEntry(lmin, bmin) ==
    [lines_min |-> IF lmin # <<>> THEN <<lmin>> ELSE <<>>,
     branches_min |-> IF bmin # <<>> THEN <<bmin>> ELSE <<>>]

\* Line 337.
BaseStatusCoverageFirst(test_rc, ok) ==
    IF test_rc = 0 /\ ok THEN "ok"
    ELSE IF ~ok THEN "coverage_failed" ELSE "tests_failed"
BaseStatus(test_rc, ok) ==
    IF test_rc = 0 /\ ok THEN "ok"
    ELSE IF test_rc # 0 THEN "tests_failed" ELSE "coverage_failed"

\* Lines 344 and 346: the override is taken.
OverrideTakenNoReason(st, test_rc, allow, reason) ==
    /\ st = "coverage_failed"
    /\ test_rc = 0
    /\ Truthy(allow)
    /\ Strip(allow.val) \notin { <<"0">>, <<>>, <<"false">>, <<"False">> }
OverrideTakenUnstripped(st, test_rc, allow, reason) ==
    /\ st = "coverage_failed"
    /\ test_rc = 0
    /\ Truthy(allow)
    /\ Strip(allow.val) \notin { <<"0">>, <<>>, <<"false">>, <<"False">> }
    /\ Truthy(reason)
OverrideTakenAllowUnstripped(st, test_rc, allow, reason) ==
    /\ st = "coverage_failed"
    /\ test_rc = 0
    /\ Truthy(allow)
    /\ allow.val \notin { <<"0">>, <<>>, <<"false">>, <<"False">> }
    /\ Truthy(reason)
    /\ Strip(reason.val) # <<>>
OverrideTaken(st, test_rc, allow, reason) ==
    /\ st = "coverage_failed"
    /\ test_rc = 0
    /\ Truthy(allow)
    /\ Strip(allow.val) \notin { <<"0">>, <<>>, <<"false">>, <<"False">> }
    /\ Truthy(reason)
    /\ Strip(reason.val) # <<>>

\* coverage.get(key, 0) if coverage else None, as <<>> or <<value>>.
PctOrNoneInverted(cov, key) == IF cov # <<>> THEN <<>> ELSE <<0>>
PctOrNone(cov, key) == IF cov = <<>> THEN <<>> ELSE << cov[1][key] >>

\* Lines 358-370; GITHUB_RUN_ID names the invocation.
OverrideRecord(p) ==
    [status |-> "coverage_overridden",
     line_pct |-> PctOrNone(coverage[p], "line_pct"),
     branch_pct |-> PctOrNone(coverage[p], "branch_pct"),
     lines_min |-> lines_min(p),
     branches_min |-> branches_min(p),
     override_reason |-> Strip(override_reason(p).val),
     github_run_id |-> <<p, run_no[p]>>]

\* json.dumps(record) + '\n' as the cells of the file it is written to: the
\* text grows with the reason, and the last cell ends with the line break.
EncodeTwice(rec) ==
    LET n == 1 + Len(rec.override_reason)
    IN [i \in 1..(2 * n) |-> [rec |-> rec, part |-> ((i - 1) % n) + 1, of |-> n]]
Encode(rec) ==
    LET n == 1 + Len(rec.override_reason)
    IN [i \in 1..n |-> [rec |-> rec, part |-> i, of |-> n]]

\* The file after data is written at offset pos: cells there are
\* overwritten, the file grows as needed.
WriteAt(file, pos, data) ==
    [i \in 1..Max(Len(file), pos + Len(data)) |->
        IF i > pos /\ i <= pos + Len(data) THEN data[i - pos] ELSE file[i]]

\* Line 372: what io.open(override_log, 'a') leaves of the file.
OpenTruncating(file) == <<>>
OpenForAppend(file) == file

\* Lines 372-373: where main() is once the append raised (nothing catches it).
AuditErrorSwallowed == "summary"
AuditErrorPc == "crashed"

\* Where main() goes from line 344: into the audit append or past it.
AfterDecisionSkipAudit(used) == "summary"
AfterDecision(used) == IF used THEN "audit_open" ELSE "summary"

\* Lines 386-388.
ExitCodeLenient(st) ==
    IF st \in {"ok", "coverage_overridden", "coverage_failed"} THEN 0 ELSE 1
ExitCode(st) ==
    IF st \in {"ok", "coverage_overridden"} THEN 0
    ELSE IF st = "coverage_failed" THEN 2 ELSE 1

RunId(p) == <<p, run_no[p]>>

\* Lines 207-212.
NewSummary ==
    [status |-> "fail", restore_rc |-> <<>>, test_rc |-> <<>>, coverage |-> <<>>,
     threshold_ok |-> <<>>, thresholds |-> <<>>]

\* What summary.json holds once json.dump wrote the summary: its status, and
\* which invocation wrote it.
SummaryFileStale(p, st) == << [by |-> RunId(p), status |-> "fail"] >>
SummaryFile(p, st) == << [by |-> RunId(p), status |-> st] >>

\* ---- the steps of main()
RunIdle ==
    /\ pc = [p \in Procs |-> "idle"]
    /\ run_no = [p \in Procs |-> 0]
    /\ targets_left = [p \in Procs |-> 0]
    /\ combined_rc = [p \in Procs |-> 0]
    /\ rc = [p \in Procs |-> 0]
    /\ cobertura_paths = [p \in Procs |-> <<>>]
    /\ coverage = [p \in Procs |-> <<>>]
    /\ threshold_ok = [p \in Procs |-> TRUE]
    /\ status = [p \in Procs |-> "fail"]
    /\ override_used = [p \in Procs |-> FALSE]
    /\ override_record = [p \in Procs |-> <<>>]
    /\ f_pos = [p \in Procs |-> 0]
    /\ audit_error = [p \in Procs |-> FALSE]
    /\ summary = [p \in Procs |-> NewSummary]
    /\ stdout = [p \in Procs |-> <<>>]
    /\ exit_code = [p \in Procs |-> <<>>]
    /\ log_at_start = [p \in Procs |-> <<>>]

\* The process is started: lines 193-216.
Start(p) ==
    /\ pc[p] \in {"idle", "done", "crashed"}
    /\ run_no[p] < MaxRuns
    /\ pc' = [pc EXCEPT ![p] = "restore"]
    /\ run_no' = [run_no EXCEPT ![p] = @ + 1]
    /\ targets_left' = [targets_left EXCEPT ![p] = 0]
    /\ combined_rc' = [combined_rc EXCEPT ![p] = 0]
    /\ rc' = [rc EXCEPT ![p] = 0]
    /\ cobertura_paths' = [cobertura_paths EXCEPT ![p] = <<>>]
    /\ coverage' = [coverage EXCEPT ![p] = <<>>]
    /\ threshold_ok' = [threshold_ok EXCEPT ![p] = TRUE]
    /\ status' = [status EXCEPT ![p] = "fail"]
    /\ override_used' = [override_used EXCEPT ![p] = FALSE]
    /\ override_record' = [override_record EXCEPT ![p] = <<>>]
    /\ f_pos' = [f_pos EXCEPT ![p] = 0]
    /\ audit_error' = [audit_error EXCEPT ![p] = FALSE]
    /\ summary' = [summary EXCEPT ![p] = NewSummary]
    /\ stdout' = [stdout EXCEPT ![p] = <<>>]
    /\ exit_code' = [exit_code EXCEPT ![p] = <<>>]
    /\ log_at_start' = [log_at_start EXCEPT ![p] = audit_log]
    /\ UNCHANGED <<union_vars, environ, file_vars>>

\* Lines 223-231: restore fails; summary.json, the status line, return 1.
RestoreFails(p) ==
    /\ pc[p] = "restore"
    /\ \E code \in RestoreRcs \ {0} :
          /\ rc' = [rc EXCEPT ![p] = code]
          /\ summary' = [summary EXCEPT ![p].restore_rc = <<code>>]
    /\ summary_json' = SummaryFile(p, summary[p].status)
    /\ stdout' = [stdout EXCEPT ![p] = Append(@, "fail")]
    /\ exit_code' = [exit_code EXCEPT ![p] = <<1>>]
    /\ pc' = [pc EXCEPT ![p] = "done"]
    /\ UNCHANGED <<union_vars, audit_error, run_no, environ, targets_left, combined_rc, cobertura_paths,
                   coverage, threshold_ok, status, override_used, override_record,
                   f_pos, log_at_start, audit_log>>

\* Lines 223-249: restore succeeds and the targets are listed.
RestoreOk(p) ==
    /\ pc[p] = "restore"
    /\ rc' = [rc EXCEPT ![p] = 0]
    /\ summary' = [summary EXCEPT ![p].restore_rc = <<0>>]
    /\ \E n \in 1..MaxTargets : targets_left' = [targets_left EXCEPT ![p] = n]
    /\ pc' = [pc EXCEPT ![p] = "test"]
    /\ UNCHANGED <<union_vars, audit_error, run_no, environ, combined_rc, cobertura_paths, coverage,
                   threshold_ok, status, override_used, override_record, f_pos,
                   stdout, exit_code, log_at_start, file_vars>>

\* combined_rc or rc
PyOrLast(a, b) == b
PyOr(a, b) == IF a # 0 THEN a ELSE b

\* Lines 250-283: one target of the test loop, "dotnet test" leaving one of
\* the lists of reports under its results_dir.
TestTargetFrom(p, reports) ==
    /\ pc[p] = "test"
    /\ targets_left[p] > 0
    /\ \E code \in TestRcs, found \in reports :
          /\ rc' = [rc EXCEPT ![p] = code]
          /\ combined_rc' = [combined_rc EXCEPT ![p] = PyOr(@, code)]
          /\ cobertura_paths' = [cobertura_paths EXCEPT ![p] = @ \o found]
    /\ targets_left' = [targets_left EXCEPT ![p] = @ - 1]
    /\ UNCHANGED <<union_vars, audit_error, pc, run_no, environ, coverage, threshold_ok, status,
                   override_used, override_record, f_pos, summary, stdout,
                   exit_code, log_at_start, file_vars>>

TestTarget(p) == TestTargetFrom(p, FoundReports)

\* Lines 285-313: the loop is over (rc is not read again); the union of the
\* reports found.
Aggregate(p) ==
    /\ pc[p] = "test"
    /\ targets_left[p] = 0
    /\ rc' = [rc EXCEPT ![p] = 0]
    /\ LET cov == IF cobertura_paths[p] # <<>>
                  THEN << parse_cobertura_union(cobertura_paths[p]) >>
                  ELSE <<>>
       IN /\ coverage' = [coverage EXCEPT ![p] = cov]
          /\ summary' = [summary EXCEPT ![p].test_rc = <<combined_rc[p]>>,
                                        ![p].coverage = cov]
    /\ pc' = [pc EXCEPT ![p] = "thresholds"]
    /\ UNCHANGED <<union_vars, audit_error, run_no, environ, targets_left, combined_rc, cobertura_paths,
                   threshold_ok, status, override_used, override_record, f_pos,
                   stdout, exit_code, log_at_start, file_vars>>

\* Lines 318-337: the gate and the base status.
Thresholds(p) ==
    /\ pc[p] = "thresholds"
    /\ LET ok == ThresholdOk(coverage[p], lines_min(p), branches_min(p))
       IN /\ threshold_ok' = [threshold_ok EXCEPT ![p] = ok]
          /\ summary' = [summary EXCEPT
                            ![p].threshold_ok = <<ok>>,
                            ![p].thresholds =
                                << ThresholdsEntry(lines_min(p), branches_min(p)) >>]
          /\ status' = [status EXCEPT ![p] = BaseStatus(combined_rc[p], ok)]
    /\ pc' = [pc EXCEPT ![p] = "override"]
    /\ UNCHANGED <<union_vars, audit_error, run_no, environ, targets_left, combined_rc, rc, cobertura_paths,
                   coverage, override_used, override_record, f_pos, stdout,
                   exit_code, log_at_start, file_vars>>

\* Lines 340-370: the override decision and, when taken, the record.
OverrideDecision(p) ==
    /\ pc[p] = "override"
    /\ LET used == OverrideTaken(status[p], combined_rc[p], override_allow(p),
                                 override_reason(p))
       IN /\ override_used' = [override_used EXCEPT ![p] = used]
          /\ status' = [status EXCEPT ![p] =
                           IF used THEN "coverage_overridden" ELSE @]
          /\ override_record' = [override_record EXCEPT ![p] =
                                    IF used THEN << OverrideRecord(p) >> ELSE @]
          /\ pc' = [pc EXCEPT ![p] = AfterDecision(used)]
    /\ UNCHANGED <<union_vars, audit_error, run_no, environ, targets_left, combined_rc, rc, cobertura_paths,
                   coverage, threshold_ok, f_pos, summary, stdout, exit_code,
                   log_at_start, file_vars>>

\* Line 372: io.open(override_log, 'a') succeeds.
AuditOpen(p) ==
    /\ pc[p] = "audit_open"
    /\ audit_log' = OpenForAppend(audit_log)
    /\ pc' = [pc EXCEPT ![p] = "audit_seek"]
    /\ UNCHANGED <<union_vars, audit_error, run_no, environ, targets_left, combined_rc, rc, cobertura_paths,
                   coverage, threshold_ok, status, override_used, override_record,
                   f_pos, summary, stdout, exit_code, log_at_start, summary_json>>

\* Line 372: io.open raises OSError; main() has no handler, the interpreter
\* prints the traceback and exits with code 1.
AuditOpenFails(p) ==
    /\ pc[p] = "audit_open"
    /\ audit_error' = [audit_error EXCEPT ![p] = TRUE]
    /\ pc' = [pc EXCEPT ![p] = AuditErrorPc]
    /\ exit_code' = [exit_code EXCEPT ![p] =
                        IF AuditErrorPc = "crashed" THEN <<1>> ELSE @]
    /\ UNCHANGED <<union_vars, run_no, environ, targets_left, combined_rc, rc, cobertura_paths,
                   coverage, threshold_ok, status, override_used, override_record,
                   f_pos, summary, stdout, log_at_start, file_vars>>

\* Line 373, leaving the with block: the buffered text is flushed. A handle
\* opened for append is first positioned at the end of the file ...
AuditSeek(p) ==
    /\ pc[p] = "audit_seek"
    /\ f_pos' = [f_pos EXCEPT ![p] = Len(audit_log)]
    /\ pc' = [pc EXCEPT ![p] = "audit_write"]
    /\ UNCHANGED <<union_vars, audit_error, run_no, environ, targets_left, combined_rc, rc, cobertura_paths,
                   coverage, threshold_ok, status, override_used, override_record,
                   summary, stdout, exit_code, log_at_start, file_vars>>

\* ... and the line is then written there. On POSIX the two are one step of
\* the kernel (O_APPEND); the C runtime of Windows, the platform the script
\* names, seeks and then writes, and the script takes no lock in between.
AuditWrite(p) ==
    /\ pc[p] = "audit_write"
    /\ audit_log' = WriteAt(audit_log, f_pos[p], Encode(override_record[p][1]))
    /\ pc' = [pc EXCEPT ![p] = "summary"]
    /\ UNCHANGED <<union_vars, audit_error, run_no, environ, targets_left, combined_rc, rc, cobertura_paths,
                   coverage, threshold_ok, status, override_used, override_record,
                   f_pos, summary, stdout, exit_code, log_at_start, summary_json>>

\* Lines 375-377: summary.json.
WriteSummary(p) ==
    /\ pc[p] = "summary"
    /\ summary' = [summary EXCEPT ![p].status = status[p]]
    /\ summary_json' = SummaryFile(p, status[p])
    /\ pc' = [pc EXCEPT ![p] = "print"]
    /\ UNCHANGED <<union_vars, audit_error, run_no, environ, targets_left, combined_rc, rc, cobertura_paths,
                   coverage, threshold_ok, status, override_used, override_record,
                   f_pos, stdout, exit_code, log_at_start, audit_log>>

\* Lines 379-385: the RUN_DOTNET status line.
PrintStatus(p) ==
    /\ pc[p] = "print"
    /\ stdout' = [stdout EXCEPT ![p] = Append(@, summary[p].status)]
    /\ pc' = [pc EXCEPT ![p] = "return"]
    /\ UNCHANGED <<union_vars, audit_error, run_no, environ, targets_left, combined_rc, rc, cobertura_paths,
                   coverage, threshold_ok, status, override_used, override_record,
                   f_pos, summary, exit_code, log_at_start, file_vars>>

\* Lines 386-388 and 392: the exit code.
Return(p) ==
    /\ pc[p] = "return"
    /\ exit_code' = [exit_code EXCEPT ![p] = << ExitCode(summary[p].status) >>]
    /\ pc' = [pc EXCEPT ![p] = "done"]
    /\ UNCHANGED <<union_vars, audit_error, run_no, environ, targets_left, combined_rc, rc, cobertura_paths,
                   coverage, threshold_ok, status, override_used, override_record,
                   f_pos, summary, stdout, log_at_start, file_vars>>

\* ================================================== specifications
\* ---- Spec: process 1 runs main() again and again
Init ==
    /\ UnionOff
    /\ RunIdle
    /\ environ \in [Procs -> Environs]
    /\ environ[2] = environ[1]
    /\ audit_log = <<>>
    /\ summary_json = <<>>

Next ==
    \E p \in {1} :
          \/ Start(p)
          \/ RestoreFails(p)
          \/ RestoreOk(p)
          \/ TestTarget(p)
          \/ Aggregate(p)
          \/ Thresholds(p)
          \/ OverrideDecision(p)
          \/ AuditOpen(p)
          \/ AuditOpenFails(p)
          \/ AuditSeek(p)
          \/ AuditWrite(p)
          \/ WriteSummary(p)
          \/ PrintStatus(p)
          \/ Return(p)

Spec == Init /\ [][Next]_vars

\* ---- UnionSpec: parse_cobertura_union on every bounded list of reports
UnionInit ==
    /\ UnionInput
    /\ RunIdle
    /\ environ = [p \in Procs |-> [COVERAGE_LINES_MIN |-> Unset,
                                   COVERAGE_BRANCHES_MIN |-> Unset,
                                   COVERAGE_OVERRIDE_ALLOW |-> Unset,
                                   COVERAGE_OVERRIDE_REASON |-> Unset]]
    /\ audit_log = <<>>
    /\ summary_json = <<>>

UnionSpec == UnionInit /\ [][UnionNext]_vars

\* ---- ConcSpec: two invocations at the override decision at once
ConcLinesMinEnv == { Unset }
ConcBranchesMinEnv == { Str(<<>>) }
ConcOverrideAllowEnv == { Str(<<"0">>), Str(<<"1">>) }
ConcOverrideReasonEnv == { Str(<<"k">>), Str(<<" ", "k", "k", " ">>) }
ConcEnvirons ==
    [COVERAGE_LINES_MIN : ConcLinesMinEnv,
     COVERAGE_BRANCHES_MIN : ConcBranchesMinEnv,
     COVERAGE_OVERRIDE_ALLOW : ConcOverrideAllowEnv,
     COVERAGE_OVERRIDE_REASON : ConcOverrideReasonEnv]
ConcPaths == { <<ReportLow>>, <<ReportHigh>> }
ConcRcs == {0, 1}

\* Both processes have run lines 193-337 (restore, tests, union, gate), each
\* on its own inputs, and neither has touched the shared files yet.
ConcInit ==
    /\ UnionOff
    /\ environ \in [Procs -> ConcEnvirons]
    /\ combined_rc \in [Procs -> ConcRcs]
    /\ cobertura_paths \in [Procs -> ConcPaths]
    /\ pc = [p \in Procs |-> "override"]
    /\ run_no = [p \in Procs |-> 1]
    /\ targets_left = [p \in Procs |-> 0]
    /\ rc = [p \in Procs |-> 0]
    /\ coverage = [p \in Procs |-> << parse_cobertura_union(cobertura_paths[p]) >>]
    /\ threshold_ok =
          [p \in Procs |-> ThresholdOk(coverage[p], lines_min(p), branches_min(p))]
    /\ status = [p \in Procs |-> BaseStatus(combined_rc[p], threshold_ok[p])]
    /\ override_used = [p \in Procs |-> FALSE]
    /\ override_record = [p \in Procs |-> <<>>]
    /\ f_pos = [p \in Procs |-> 0]
    /\ audit_error = [p \in Procs |-> FALSE]
    /\ summary = [p \in Procs |->
                     [status |-> "fail", restore_rc |-> <<0>>,
                      test_rc |-> <<combined_rc[p]>>, coverage |-> coverage[p],
                      threshold_ok |-> <<threshold_ok[p]>>,
                      thresholds |->
                          << ThresholdsEntry(lines_min(p), branches_min(p)) >>]]
    /\ stdout = [p \in Procs |-> <<>>]
    /\ exit_code = [p \in Procs |-> <<>>]
    /\ log_at_start = [p \in Procs |-> <<>>]
    /\ audit_log = <<>>
    /\ summary_json = <<>>

ConcNext ==
    \E p \in Procs :
          \/ OverrideDecision(p)
          \/ AuditOpen(p)
          \/ AuditOpenFails(p)
          \/ AuditSeek(p)
          \/ AuditWrite(p)
          \/ WriteSummary(p)
          \/ PrintStatus(p)
          \/ Return(p)

ConcSpec == ConcInit /\ [][ConcNext]_vars

\* ---- GateSpec: main() again and again, with more minima and reports whose
\* ---- line and branch percentages differ
GateLinesMinEnv == { Unset, Str(<<>>), Str(<<"66.67">>), Str(<<"abc">>) }
GateBranchesMinEnv == { Unset, Str(<<>>), Str(<<"66.67">>), Str(<<"abc">>) }
GateOverrideAllowEnv == { Str(<<"1">>) }
GateOverrideReasonEnv == { Unset, Str(<<"k">>) }
GateEnvirons ==
    [COVERAGE_LINES_MIN : GateLinesMinEnv,
     COVERAGE_BRANCHES_MIN : GateBranchesMinEnv,
     COVERAGE_OVERRIDE_ALLOW : GateOverrideAllowEnv,
     COVERAGE_OVERRIDE_REASON : GateOverrideReasonEnv]

\* 2 of 3 lines (66.67%), 1 of 2 branches (50.0%).
ReportLinesBetter ==
    Report(<< LineEl("a.cs", 1, [hits |-> 1, branch |-> "true", cc |-> CC(1, 2)]),
              LineEl("a.cs", 2, [hits |-> 1, branch |-> "false", cc |-> NoCC]),
              LineEl("a.cs", 3, [hits |-> 0, branch |-> "false", cc |-> NoCC]) >>)
\* 1 of 2 lines (50.0%), 2 of 3 branches (66.67%).
ReportBranchesBetter ==
    Report(<< LineEl("a.cs", 1, [hits |-> 1, branch |-> "true", cc |-> CC(2, 3)]),
              LineEl("a.cs", 2, [hits |-> 0, branch |-> "false", cc |-> NoCC]) >>)

GateFoundReports == { <<>>, <<ReportLinesBetter>>, <<ReportBranchesBetter>> }

GateTestTarget(p) == TestTargetFrom(p, GateFoundReports)

GateInit ==
    /\ UnionOff
    /\ RunIdle
    /\ environ \in [Procs -> GateEnvirons]
    /\ environ[2] = environ[1]
    /\ audit_log = <<>>
    /\ summary_json = <<>>

GateNext ==
    \E p \in {1} :
          \/ Start(p)
          \/ RestoreFails(p)
          \/ RestoreOk(p)
          \/ GateTestTarget(p)
          \/ Aggregate(p)
          \/ Thresholds(p)
          \/ OverrideDecision(p)
          \/ AuditOpen(p)
          \/ AuditOpenFails(p)
          \/ AuditSeek(p)
          \/ AuditWrite(p)
          \/ WriteSummary(p)
          \/ PrintStatus(p)
          \/ Return(p)

GateSpec == GateInit /\ [][GateNext]_vars

\* ---- AllowSpec: main() again and again under every kind of value of
\* ---- COVERAGE_OVERRIDE_ALLOW, the line gate at its default
AllowLinesMinEnv == { Unset }
AllowBranchesMinEnv == { Str(<<>>) }
AllowOverrideAllowEnv ==
    { Unset, Str(<<>>), Str(<<" ">>), Str(<<"0">>), Str(<<" ", "0", " ">>),
      Str(<<"false">>), Str(<<"False">>), Str(<<"FALSE">>), Str(<<"1">>) }
AllowOverrideReasonEnv == { Unset, Str(<<"k">>) }
AllowEnvirons ==
    [COVERAGE_LINES_MIN : AllowLinesMinEnv,
     COVERAGE_BRANCHES_MIN : AllowBranchesMinEnv,
     COVERAGE_OVERRIDE_ALLOW : AllowOverrideAllowEnv,
     COVERAGE_OVERRIDE_REASON : AllowOverrideReasonEnv]

AllowInit ==
    /\ UnionOff
    /\ RunIdle
    /\ environ \in [Procs -> AllowEnvirons]
    /\ environ[2] = environ[1]
    /\ audit_log = <<>>
    /\ summary_json = <<>>

AllowSpec == AllowInit /\ [][Next]_vars

\* ========================================================== claims
Range(seq) == { seq[i] : i \in 1..Len(seq) }

\* The cells file[i..i+n-1] are one whole line: the n cells of one record.
WholeLineAt(file, i) ==
    /\ file[i].part = 1
    /\ i + file[i].of - 1 <= Len(file)
    /\ \A k \in 1..file[i].of :
          file[i + k - 1] = [rec |-> file[i].rec, part |-> k, of |-> file[i].of]

RECURSIVE RecordsFrom(_, _)
\* The records a reader of the .jsonl file finds from cell i on, one per
\* whole line; cells that belong to no whole line are passed over.
RecordsFrom(file, i) ==
    IF i > Len(file) THEN <<>>
    ELSE IF WholeLineAt(file, i)
         THEN <<file[i].rec>> \o RecordsFrom(file, i + file[i].of)
         ELSE RecordsFrom(file, i + 1)

Records(file) == RecordsFrom(file, 1)

RECURSIVE WellFormedFrom(_, _)
\* Every cell from i on belongs to a whole line.
WellFormedFrom(file, i) ==
    IF i > Len(file) THEN TRUE
    ELSE WholeLineAt(file, i) /\ WellFormedFrom(file, i + file[i].of)

WellFormed(file) == WellFormedFrom(file, 1)

IsPrefix(a, b) == Len(a) <= Len(b) /\ SubSeq(b, 1, Len(a)) = a

\* The invocation of p got as far as its test result.
TestsFailed(p) == summary[p].test_rc # <<>> /\ summary[p].test_rc[1] # 0
TestsPassed(p) == summary[p].test_rc = <<0>>
\* The invocation of p returned from main().
Returned(p) == pc[p] = "done" /\ run_no[p] > 0
\* summary.json as this invocation of p wrote it holds status st.
SummaryJsonSays(p, st) ==
    summary_json # <<>> /\ summary_json[1].by = RunId(p) /\ summary_json[1].status = st
AllowGiven(p) ==
    /\ override_allow(p).set
    /\ Strip(override_allow(p).val) \notin { <<"0">>, <<>>, <<"false">>, <<"False">> }
ReasonGiven(p) == override_reason(p).set /\ Strip(override_reason(p).val) # <<>>

\* C1: whenever the combined test return code is non-zero, the status never
\* becomes coverage_overridden, the audit log stays as the invocation found
\* it, and the invocation ends with status tests_failed in the summary, in
\* summary.json and on the status line, with exit code 1.
C1_TestFailureNeverMasked ==
    \A p \in Procs :
        TestsFailed(p) =>
            /\ status[p] # "coverage_overridden"
            /\ ~override_used[p]
            /\ audit_log = log_at_start[p]
            /\ pc[p] \in {"override", "summary", "print", "return", "done"} =>
                  status[p] = "tests_failed"
            /\ Returned(p) =>
                  /\ summary[p].status = "tests_failed"
                  /\ SummaryJsonSays(p, "tests_failed")
                  /\ stdout[p] = <<"tests_failed">>
                  /\ exit_code[p] = <<1>>

\* C1 witness: tests failed, the gate failed too, and both override
\* variables ask for the override.
C1_Witness ==
    /\ Returned(1)
    /\ TestsFailed(1)
    /\ ~threshold_ok[1]
    /\ AllowGiven(1)
    /\ ReasonGiven(1)

\* C2: the status is coverage_overridden (in main(), in summary.json, on the
\* status line) only if the tests passed, the gate failed, the override is
\* allowed and a reason that is not blank is supplied.
C2_OverrideOnlyIf ==
    \A p \in Procs :
        (\/ status[p] = "coverage_overridden"
         \/ summary[p].status = "coverage_overridden"
         \/ SummaryJsonSays(p, "coverage_overridden")
         \/ "coverage_overridden" \in Range(stdout[p]))
        => /\ combined_rc[p] = 0
           /\ ~threshold_ok[p]
           /\ AllowGiven(p)
           /\ ReasonGiven(p)

\* C2 witness: an invocation returned with status coverage_overridden.
C2_Witness == Returned(1) /\ summary[1].status = "coverage_overridden"

\* C3: tests passed, the gate failed and no reason is given (unset, empty or
\* blank): the invocation ends coverage_failed with exit code 2 and the
\* audit log as it found it, whatever COVERAGE_OVERRIDE_ALLOW is.
C3_NoReasonRejected ==
    \A p \in Procs :
        (TestsPassed(p) /\ summary[p].threshold_ok = <<FALSE>> /\ ~ReasonGiven(p))
        => /\ status[p] = "coverage_failed"
           /\ audit_log = log_at_start[p]
           /\ Returned(p) =>
                 /\ summary[p].status = "coverage_failed"
                 /\ SummaryJsonSays(p, "coverage_failed")
                 /\ exit_code[p] = <<2>>

\* C3 witness: the override is allowed, the reason is only white space.
C3_Witness ==
    /\ Returned(1)
    /\ TestsPassed(1)
    /\ summary[1].threshold_ok = <<FALSE>>
    /\ AllowGiven(1)
    /\ override_reason(1) = Str(<<" ">>)

\* C4: an invocation that ends coverage_overridden has added exactly its own
\* record to the audit log; one that ends otherwise (returned with another
\* status, or left by an exception) has added nothing.
C4_OneRecordIffOverridden ==
    \A p \in Procs :
        /\ (Returned(p) /\ summary[p].status = "coverage_overridden")
           => Records(audit_log) =
                 Append(Records(log_at_start[p]), override_record[p][1])
        /\ ((Returned(p) /\ summary[p].status # "coverage_overridden")
            \/ pc[p] = "crashed")
           => audit_log = log_at_start[p]

\* C4 witness: an overridden invocation that found a record in the log.
C4_Witness ==
    /\ Returned(1)
    /\ summary[1].status = "coverage_overridden"
    /\ Len(Records(log_at_start[1])) = 1
    /\ Len(Records(audit_log)) = 2

\* C5: at every point of an invocation the audit log is the log the
\* invocation found, or that log with one whole record line after it: what
\* was there stays, cell for cell.
C5_AppendOnly ==
    \A p \in Procs :
        run_no[p] > 0 =>
            \/ audit_log = log_at_start[p]
            \/ /\ IsPrefix(log_at_start[p], audit_log)
               /\ WellFormed(audit_log)
               /\ Len(Records(audit_log)) = Len(Records(log_at_start[p])) + 1
               /\ SubSeq(Records(audit_log), 1, Len(Records(log_at_start[p])))
                     = Records(log_at_start[p])

\* C5 witness: the second invocation appended to a log that held a record.
C5_Witness ==
    /\ Returned(1)
    /\ run_no[1] = 2
    /\ log_at_start[1] # <<>>
    /\ audit_log # log_at_start[1]

\* C6: once summary.json holds coverage_overridden, or the status line was
\* printed with it, or main() returned 0 with it, the record of this
\* invocation is already the last whole line of the audit log.
C6_AuditBeforeStatus ==
    \A p \in Procs :
        (\/ SummaryJsonSays(p, "coverage_overridden")
         \/ "coverage_overridden" \in Range(stdout[p])
         \/ (exit_code[p] = <<0>> /\ summary[p].status = "coverage_overridden"))
        => /\ override_record[p] # <<>>
           /\ WellFormed(audit_log)
           /\ Records(audit_log) # <<>>
           /\ Records(audit_log)[Len(Records(audit_log))] = override_record[p][1]

\* C6 witness: summary.json written with coverage_overridden, status line
\* not printed yet.
C6_Witness == pc[1] = "print" /\ SummaryJsonSays(1, "coverage_overridden")

\* C7: once the audit append raised, this invocation writes no summary.json
\* with ok or coverage_overridden, prints no such status line, and ends with
\* exit code 1.
C7_AuditFailureNeverClaimsSuccess ==
    \A p \in Procs :
        audit_error[p] =>
            /\ ~SummaryJsonSays(p, "ok")
            /\ ~SummaryJsonSays(p, "coverage_overridden")
            /\ stdout[p] = <<>>
            /\ pc[p] = "crashed"
            /\ exit_code[p] = <<1>>

\* C7 witness: the append raised after an earlier invocation had left a
\* summary.json behind.
C7_Witness == audit_error[1] /\ run_no[1] = 2 /\ summary_json # <<>>

\* C8: every invocation that took the override and got past the append finds
\* the log made of whole lines only, its own record among them.
C8_NoInterleavingNoLoss ==
    \A p \in Procs :
        (override_used[p] /\ pc[p] \in {"summary", "print", "return", "done"})
        => /\ WellFormed(audit_log)
           /\ override_record[p][1] \in Range(Records(audit_log))

\* The permutations of 1..n.
Perms(n) == { f \in [1..n -> 1..n] : \A i, j \in 1..n : f[i] = f[j] => i = j }

\* C9: the numbers parse_cobertura_union returns for a list of reports are
\* those it returns for every permutation of the list.
C9_OrderIndependent ==
    u_pc = "done" =>
        \A f \in Perms(Len(paths)) :
            Numbers(parse_cobertura_union([i \in 1..Len(paths) |-> paths[f[i]]]))
                = Numbers(out[1])

\* C9 witness: two reports give different branch counts for the same line.
C9_Witness ==
    /\ u_pc = "done"
    /\ Len(paths) = 2
    /\ paths[1].ok
    /\ paths[2].ok
    /\ \E a \in Range(paths[1].lines), b \in Range(paths[2].lines) :
          /\ a.number = b.number
          /\ a.number > 0
          /\ a.cc.text = "match"
          /\ b.cc.text = "match"
          /\ a.cc.covered < b.cc.covered

\* The list ps without its element j.
Without(ps, j) == [i \in 1..(Len(ps) - 1) |-> IF i < j THEN ps[i] ELSE ps[i + 1]]

\* C10: when a report occurs twice in the list, the numbers returned are
\* those returned for the list with the second occurrence left out.
C10_Idempotent ==
    u_pc = "done" =>
        \A i, j \in 1..Len(paths) :
            (i < j /\ paths[i] = paths[j])
            => Numbers(out[1]) = Numbers(parse_cobertura_union(Without(paths, j)))

\* C10 witness: [A, A] where A has a covered line with branch counts.
C10_Witness ==
    /\ u_pc = "done"
    /\ Len(paths) = 2
    /\ paths[1] = paths[2]
    /\ out[1].lines_covered > 0
    /\ out[1].branches_covered > 0

\* The <line> elements of the reports of ps that are coverage facts: those
\* with a positive line number.
FactsOf(ps) ==
    { el \in UNION { IF ps[i].ok THEN Range(ps[i].lines) ELSE {} : i \in 1..Len(ps) } :
         el.number > 0 }

\* The (filename, line number) keys of the facts of ps.
KeysOf(ps) == { <<el.filename, el.number>> : el \in FactsOf(ps) }

\* The facts of ps reported for key k.
FactsAt(ps, k) == { el \in FactsOf(ps) : <<el.filename, el.number>> = k }

\* C11: lines_valid is the number of distinct keys occurring in any report
\* and lines_covered the number of those keys with hits > 0 in at least one
\* report, however often a key occurs.
C11_NoDoubleCounting ==
    u_pc = "done" =>
        /\ out[1].lines_valid = Cardinality(KeysOf(paths))
        /\ out[1].lines_covered =
              Cardinality({ k \in KeysOf(paths) :
                              \E el \in FactsAt(paths, k) : el.hits > 0 })

\* C11 witness: one key reported twice, first with hits > 0 and then with
\* hits = 0; it counts once, as covered.
C11_Witness ==
    /\ u_pc = "done"
    /\ Facts(paths) = 2
    /\ \E i, j \in 1..Len(paths) :
          /\ i <= j
          /\ \E a \in Range(paths[i].lines), b \in Range(paths[j].lines) :
                /\ a.number = b.number
                /\ a.number > 0
                /\ a.hits > 0
                /\ b.hits = 0
    /\ paths[Len(paths)].lines # <<>>
    /\ paths[Len(paths)].lines[Len(paths[Len(paths)].lines)].hits = 0
    /\ out[1].lines_valid = 1
    /\ out[1].lines_covered = 1

\* The branch facts of ps reported for key k: the line is flagged as a
\* branch and its condition-coverage holds "(covered/valid)".
BranchFactsAt(ps, k) ==
    { el \in FactsAt(ps, k) : Lower(el.branch) = "true" /\ el.cc.text = "match" }

\* The keys of ps with at least one branch fact.
BranchKeysOf(ps) == { k \in KeysOf(ps) : BranchFactsAt(ps, k) # {} }

\* The largest number of a non-empty finite set of numbers.
MaxOf(S) == CHOOSE x \in S : \A y \in S : x >= y

\* C12: the merged pair of a key is (max of covered, max of valid) over the
\* branch facts reported for it, whatever else the reports say of that line;
\* only keys with a branch fact have a pair; branches_covered and
\* branches_valid are the sums of the pairs over the keys.
C12_BranchUnionByMax ==
    u_pc = "done" =>
        LET merged == [k \in BranchKeysOf(paths) |->
                          << MaxOf({ el.cc.covered : el \in BranchFactsAt(paths, k) }),
                             MaxOf({ el.cc.valid : el \in BranchFactsAt(paths, k) }) >>]
        IN /\ branch_counts = merged
           /\ out[1].branches_covered =
                 SumOver(DOMAIN merged, [k \in DOMAIN merged |-> merged[k][1]])
           /\ out[1].branches_valid =
                 SumOver(DOMAIN merged, [k \in DOMAIN merged |-> merged[k][2]])

\* C12 witness: a key has the branch facts (2/2) and then (1/3), or a branch
\* fact and then the same line without a branch flag.
C12_Witness ==
    /\ u_pc = "done"
    /\ Len(paths) = 2
    /\ \E a \in Range(paths[1].lines), b \in Range(paths[2].lines) :
          /\ a.number = b.number
          /\ a.number > 0
          /\ a.cc = CC(2, 2)
          /\ \/ b.cc = CC(1, 3) /\ out[1].branches_valid = 3
             \/ b.branch = "false" /\ out[1].branches_valid = 2
    /\ out[1].branches_covered = 2

\* The first n reports of ps.
FirstReports(ps, n) == SubSeq(ps, 1, n)

\* C13: for every list of reports and every report B after a part A of it,
\* the union of A with B has at least the lines_covered and the
\* branches_covered of the union of A alone; and no step of the merge turns
\* a covered key into an uncovered or a missing one.
C13_CountsMonotone ==
    /\ [](u_pc = "done" =>
            \A n \in 0..(Len(paths) - 1) :
                LET a == parse_cobertura_union(FirstReports(paths, n))
                    ab == parse_cobertura_union(FirstReports(paths, n + 1))
                IN /\ ab.lines_covered >= a.lines_covered
                   /\ ab.branches_covered >= a.branches_covered
                   /\ n + 1 = Len(paths) => Numbers(ab) = Numbers(out[1]))
    /\ [][\A k \in DOMAIN line_hits :
             line_hits[k] => (k \in DOMAIN line_hits' /\ line_hits'[k])]_vars

\* C13 witness: the last report lists with hits = 0 a line an earlier report
\* covered, and with fewer covered branches a line an earlier one had more of.
C13_Witness ==
    /\ u_pc = "done"
    /\ Len(paths) = 2
    /\ \E a \in Range(paths[1].lines), b \in Range(paths[2].lines) :
          /\ a.number = b.number
          /\ a.number > 0
          /\ \/ a.hits > 0 /\ b.hits = 0 /\ out[1].lines_covered = 1
             \/ a.cc = CC(2, 2) /\ b.cc = CC(1, 2) /\ out[1].branches_covered = 2

\* C14 as stated: for every list of reports and every report B after a part
\* A of it, the union of A with B has at least the line_pct and the
\* branch_pct of the union of A alone.
C14_PctMonotone ==
    u_pc = "done" =>
        \A n \in 0..(Len(paths) - 1) :
            LET a == parse_cobertura_union(FirstReports(paths, n))
                ab == parse_cobertura_union(FirstReports(paths, n + 1))
            IN /\ ab.line_pct >= a.line_pct
               /\ ab.branch_pct >= a.branch_pct

\* C14 amended: line_pct does not fall when B leaves lines_valid as it was,
\* and branch_pct does not fall when B leaves branches_valid as it was.
C14_PctMonotoneSameValid ==
    u_pc = "done" =>
        \A n \in 0..(Len(paths) - 1) :
            LET a == parse_cobertura_union(FirstReports(paths, n))
                ab == parse_cobertura_union(FirstReports(paths, n + 1))
            IN /\ n + 1 = Len(paths) => Numbers(ab) = Numbers(out[1])
               /\ ab.lines_valid = a.lines_valid => ab.line_pct >= a.line_pct
               /\ ab.branches_valid = a.branches_valid
                     => ab.branch_pct >= a.branch_pct

\* C14 witness: B reports one line A has, with fewer covered branches of
\* the same number of branches; branch_pct stays at A's 100%.
C14_Witness ==
    /\ u_pc = "done"
    /\ Len(paths) = 2
    /\ paths[1].lines # <<>>
    /\ paths[2].lines # <<>>
    /\ paths[1].lines[1].number > 0
    /\ paths[1].lines[1].number = paths[2].lines[1].number
    /\ paths[1].lines[1].cc = CC(2, 2)
    /\ paths[2].lines[1].cc = CC(1, 2)
    /\ parse_cobertura_union(FirstReports(paths, 1)).branch_pct = 10000
    /\ out[1].branches_valid = 2
    /\ out[1].branch_pct = 10000

\* C15: the function returns for every list; for no reports, or well-formed
\* reports without a fact, all four counts and both percentages are 0 and
\* the errors list is empty; a percentage is 0 whenever its valid count is.
C15_EmptyInputDefined ==
    u_pc = "done" =>
        /\ out # <<>>
        /\ out[1] = parse_cobertura_union(paths)
        /\ (KeysOf(paths) = {} /\ \A i \in 1..Len(paths) : paths[i].ok)
              => /\ Numbers(out[1]) = <<0, 0, 0, 0, 0, 0>>
                 /\ out[1].errors = <<>>
        /\ out[1].lines_valid = 0 => out[1].line_pct = 0
        /\ out[1].branches_valid = 0 => out[1].branch_pct = 0

\* C15 witness: a report without lines and one whose only line has number 0.
C15_Witness ==
    /\ u_pc = "done"
    /\ Len(paths) = 2
    /\ paths[1] = Report(<<>>)
    /\ paths[2].ok
    /\ Len(paths[2].lines) = 1
    /\ paths[2].lines[1].number = 0
    /\ out[1].line_pct = 0

\* The invocation of p has evaluated the gate (line 329).
Gated(p) == summary[p].threshold_ok # <<>>

\* A minimum enables its axis: it is not the empty text.
Enabled(min) == min # <<>>

\* A minimum is well formed: empty, or a number from 0 to 100.
WellFormedMin(min) ==
    \/ min = <<>>
    \/ Float(min) # <<>> /\ Float(min)[1] >= 0 /\ Float(min)[1] <= 10000

\* The axis with percentage pct meets the well-formed, enabled minimum min.
Meets(pct, min) == pct >= Float(min)[1]

\* C16: with a snapshot and well-formed minima, threshold_ok is true exactly
\* when the line percentage is at least lines_min if that is enabled and the
\* branch percentage at least branches_min if that is enabled.
C16_VerdictRule ==
    \A p \in Procs :
        (/\ Gated(p)
         /\ coverage[p] # <<>>
         /\ WellFormedMin(lines_min(p))
         /\ WellFormedMin(branches_min(p)))
        => /\ summary[p].threshold_ok = <<threshold_ok[p]>>
           /\ threshold_ok[p] <=>
                 /\ Enabled(lines_min(p))
                       => Meets(coverage[p][1].line_pct, lines_min(p))
                 /\ Enabled(branches_min(p))
                       => Meets(coverage[p][1].branch_pct, branches_min(p))

\* C16 witness: the line percentage equals lines_min, the branch axis is
\* disabled, and the gate passed.
C16_Witness ==
    /\ Gated(1)
    /\ coverage[1] # <<>>
    /\ lines_min(1) = <<"50">>
    /\ coverage[1][1].line_pct = 5000
    /\ branches_min(1) = <<>>
    /\ threshold_ok[1]

\* The axis with percentage pct fails its minimum: the minimum is enabled,
\* float() takes it, and pct is below it.
Unmet(pct, min) == Enabled(min) /\ Float(min) # <<>> /\ pct < Float(min)[1]

\* C17: once the gate is evaluated: with both minima disabled it passed,
\* with or without a snapshot; with one minimum disabled it failed only if
\* the other axis fails its minimum; and with branches_min disabled and a
\* line percentage below lines_min it failed, the status being
\* coverage_failed when the tests passed.
C17_ThresholdIndependence ==
    \A p \in Procs :
        Gated(p) =>
            /\ (~Enabled(lines_min(p)) /\ ~Enabled(branches_min(p)))
                  => threshold_ok[p]
            /\ (~Enabled(lines_min(p)) /\ ~threshold_ok[p])
                  => /\ coverage[p] # <<>>
                     /\ Unmet(coverage[p][1].branch_pct, branches_min(p))
            /\ (~Enabled(branches_min(p)) /\ ~threshold_ok[p])
                  => /\ coverage[p] # <<>>
                     /\ Unmet(coverage[p][1].line_pct, lines_min(p))
            /\ (/\ ~Enabled(branches_min(p))
                /\ coverage[p] # <<>>
                /\ Unmet(coverage[p][1].line_pct, lines_min(p)))
                  => /\ ~threshold_ok[p]
                     /\ (TestsPassed(p) /\ pc[p] = "override")
                           => status[p] = "coverage_failed"

\* C17 witness: both minima disabled, a snapshot at 50%, and the invocation
\* returned ok.
C17_Witness ==
    /\ Returned(1)
    /\ lines_min(1) = <<>>
    /\ branches_min(1) = <<>>
    /\ coverage[1] # <<>>
    /\ coverage[1][1].line_pct = 5000
    /\ coverage[1][1].branch_pct = 5000
    /\ summary[1].status = "ok"

\* The axis is not gated in the invocation of p: the gate fails only if the
\* other axis, with percentage other_pct and minimum other_min, fails.
NotGated(p, other_pct, other_min) ==
    ~threshold_ok[p] =>
        /\ coverage[p] # <<>>
        /\ Unmet(coverage[p][1][other_pct], other_min)

MalformedMin(min) == ~WellFormedMin(min)

\* C19: an invocation with a malformed minimum returns a failure (its exit
\* code is not 0, its status neither ok nor coverage_overridden) and has
\* aggregated no report.
C19_MalformedThresholdAborts ==
    \A p \in Procs :
        (Returned(p) /\ (MalformedMin(lines_min(p)) \/ MalformedMin(branches_min(p))))
        => /\ exit_code[p] # <<0>>
           /\ summary[p].status \notin {"ok", "coverage_overridden"}
           /\ ~SummaryJsonSays(p, "ok")
           /\ ~SummaryJsonSays(p, "coverage_overridden")
           /\ coverage[p] = <<>>

\* The positions of main() in program order; an invocation ends at "done"
\* (it returned) or "crashed" (an exception left it).
PcOrder ==
    << "idle", "restore", "test", "thresholds", "override", "audit_open",
       "audit_seek", "audit_write", "summary", "print", "return", "done" >>

PcRank(at) ==
    IF at = "crashed" THEN Len(PcOrder)
    ELSE CHOOSE i \in 1..Len(PcOrder) : PcOrder[i] = at

\* One step of the invocation of p moves forward: its position does not go
\* back, and its status changes only from the pending 'fail' to a base
\* status or from coverage_failed to coverage_overridden.
Forward(p) ==
    run_no'[p] = run_no[p] =>
        /\ PcRank(pc'[p]) >= PcRank(pc[p])
        /\ status'[p] # status[p] =>
              \/ /\ status[p] = "fail"
                 /\ pc[p] = "thresholds"
                 /\ status'[p] \in {"ok", "tests_failed", "coverage_failed"}
              \/ /\ status[p] = "coverage_failed"
                 /\ pc[p] = "override"
                 /\ status'[p] = "coverage_overridden"
        /\ summary'[p].status # summary[p].status =>
              /\ summary[p].status = "fail"
              /\ pc[p] = "summary"

\* What an invocation that returned reports: one status, the same in the
\* summary, in summary.json and on the one status line.
EndsWith(p, statuses) ==
    /\ summary[p].status \in statuses
    /\ SummaryJsonSays(p, summary[p].status)
    /\ stdout[p] = << summary[p].status >>

C21_RecordCarriesSnapshot ==
    \A p \in Procs :
        override_used[p] =>
            /\ override_record[p] # <<>>
            /\ summary[p].coverage # <<>>
            /\ override_record[p][1].line_pct
                  = << summary[p].coverage[1].line_pct >>
            /\ override_record[p][1].branch_pct
                  = << summary[p].coverage[1].branch_pct >>
            /\ Returned(p) =>
                  LET last == Records(audit_log)[Len(Records(audit_log))]
                  IN /\ last.github_run_id = RunId(p)
                     /\ last.line_pct = << summary[p].coverage[1].line_pct >>
                     /\ last.branch_pct = << summary[p].coverage[1].branch_pct >>

\* C21 witness: an overridden invocation whose snapshot is at 50% left its
\* record after that of an earlier one.
C21_Witness ==
    /\ Returned(1)
    /\ run_no[1] = 2
    /\ override_used[1]
    /\ Len(Records(audit_log)) = 2
    /\ Records(audit_log)[2].line_pct = <<5000>>
    /\ summary[1].coverage[1].line_pct = 5000

\* The well-formed reports of ps, in their order.
WellFormedReports(ps) == SelectSeq(ps, LAMBDA r : r.ok)

\* C22: with malformed reports anywhere in the list the function still
\* returns; the errors list has one entry per malformed report, with its
\* path, and none for the others; and the numbers are those of the union of
\* the well-formed reports alone.
C22_MalformedReportExcluded ==
    u_pc = "done" =>
        /\ out # <<>>
        /\ \A i \in 1..Len(paths) :
              ~paths[i].ok <=> ErrorEntry(i) \in Range(out[1].errors)
        /\ Len(out[1].errors) = Cardinality({ i \in 1..Len(paths) : ~paths[i].ok })
        /\ Numbers(out[1]) = Numbers(parse_cobertura_union(WellFormedReports(paths)))
        /\ out[1].lines_valid = Cardinality(KeysOf(paths))

\* C22 witness: a malformed file whose text holds a covered line, followed by
\* a well-formed report with an uncovered line.
C22_Witness ==
    /\ u_pc = "done"
    /\ Len(paths) = 2
    /\ ~paths[1].ok
    /\ Len(paths[1].lines) = 1
    /\ paths[1].lines[1].number > 0
    /\ paths[1].lines[1].hits > 0
    /\ paths[2].ok
    /\ Len(paths[2].lines) = 1
    /\ paths[2].lines[1].number > 0
    /\ paths[2].lines[1].hits = 0
    /\ out[1].errors = << ErrorEntry(1) >>
    /\ out[1].lines_valid = 1
    /\ out[1].lines_covered = 0

\* The list ps with <line> j of report i replaced by el.
ReplaceLine(ps, i, j, el) == [ps EXCEPT ![i].lines[j] = el]

\* <line> el is flagged as a branch and carries a condition-coverage text
\* that holds no "(covered/valid)".
UnparsedBranch(el) ==
    /\ el.number > 0
    /\ Lower(el.branch) = "true"
    /\ el.cc.text = "nomatch"

\* C23: what the function returns for a list with a branch line whose
\* condition-coverage does not parse names that failure: it differs from
\* what it returns when the line carries no branch flag, and from what it
\* returns when the line is a (0/0) branch fact.
C23_UnparsedBranchRecorded ==
    u_pc = "done" =>
        \A i \in 1..Len(paths) :
            \A j \in 1..Len(paths[i].lines) :
                (paths[i].ok /\ UnparsedBranch(paths[i].lines[j]))
                => LET el == paths[i].lines[j]
                       plain == [el EXCEPT !.branch = "false", !.cc = NoCC]
                       zero == [el EXCEPT !.cc = CC(0, 0)]
                   IN /\ out[1] # parse_cobertura_union(ReplaceLine(paths, i, j, plain))
                      /\ out[1] # parse_cobertura_union(ReplaceLine(paths, i, j, zero))

\* The snapshot of the invocation of p is below an enabled minimum that
\* float() takes.
ThresholdsUnmet(p) ==
    /\ coverage[p] # <<>>
    /\ \/ Unmet(coverage[p][1].line_pct, lines_min(p))
       \/ Unmet(coverage[p][1].branch_pct, branches_min(p))

\* C24: an invocation whose tests failed, or whose snapshot is below a
\* minimum, returns an exit code other than 0.
C24_NonZeroExit ==
    \A p \in Procs :
        (Returned(p) /\ (TestsFailed(p) \/ ThresholdsUnmet(p)))
        => exit_code[p] # <<0>>

\* A minimum that gates its axis: enabled and a number from 0 to 100.
Gating(min) == Enabled(min) /\ WellFormedMin(min)

\* C25: an invocation that returned ok with a gating minimum on an axis has
\* computed a snapshot, and the snapshot's percentage on that axis is at
\* least the minimum.
C25_OkIsSound ==
    \A p \in Procs :
        (Returned(p) /\ summary[p].status = "ok") =>
            /\ Gating(lines_min(p))
                  => /\ coverage[p] # <<>>
                     /\ Meets(coverage[p][1].line_pct, lines_min(p))
            /\ Gating(branches_min(p))
                  => /\ coverage[p] # <<>>
                     /\ Meets(coverage[p][1].branch_pct, branches_min(p))

\* C26: once the gate is evaluated on a snapshot, a gating branches_min the
\* snapshot is below makes threshold_ok false whatever lines_min is, and a
\* gating lines_min the snapshot is below makes it false whatever
\* branches_min is.
C26_BadNeighbour ==
    \A p \in Procs :
        (Gated(p) /\ coverage[p] # <<>>) =>
            /\ (Gating(branches_min(p))
                /\ ~Meets(coverage[p][1].branch_pct, branches_min(p)))
                  => ~threshold_ok[p]
            /\ (Gating(lines_min(p))
                /\ ~Meets(coverage[p][1].line_pct, lines_min(p)))
                  => ~threshold_ok[p]

\* Every branch fact of ps has 0 <= covered <= valid.
BranchFactsBounded(ps) ==
    \A k \in KeysOf(ps) :
        \A el \in BranchFactsAt(ps, k) : 0 <= el.cc.covered /\ el.cc.covered <= el.cc.valid

\* C27: for reports whose branch facts have covered <= valid, every merged
\* pair has covered <= valid after every merge step, and the snapshot has
\* 0 <= lines_covered <= lines_valid, 0 <= branches_covered <=
\* branches_valid and both percentages from 0 to 100.
C27_SnapshotBounds ==
    BranchFactsBounded(paths) =>
        /\ \A k \in DOMAIN branch_counts :
              0 <= branch_counts[k][1] /\ branch_counts[k][1] <= branch_counts[k][2]
        /\ u_pc = "done" =>
              /\ 0 <= out[1].lines_covered
              /\ out[1].lines_covered <= out[1].lines_valid
              /\ 0 <= out[1].branches_covered
              /\ out[1].branches_covered <= out[1].branches_valid
              /\ out[1].line_pct \in 0..10000
              /\ out[1].branch_pct \in 0..10000

\* C27 witness: the pairs (2/2) and (1/3) of one key merged to (2/3), on a
\* line one report covers and the other does not.
C27_Witness ==
    /\ u_pc = "done"
    /\ Len(paths) = 2
    /\ paths[1].ok
    /\ paths[2].ok
    /\ \E k \in DOMAIN branch_counts : branch_counts[k] = <<2, 3>>
    /\ out[1].branches_covered = 2
    /\ out[1].branches_valid = 3
    /\ out[1].branch_pct = 6667
    /\ out[1].lines_valid = 1

\* One step of the invocation of p in or into the test loop: the loop is
\* entered with combined_rc = 0 and at least one target; while targets are
\* left the next one is run, whatever combined_rc is, and combined_rc keeps
\* its value if that is not 0 and takes the target's return code otherwise;
\* the loop is left only when no target is left, with test_rc = combined_rc.
TestLoopStep(p) ==
    /\ (pc[p] = "restore" /\ pc'[p] = "test")
          => combined_rc'[p] = 0 /\ targets_left'[p] >= 1
    /\ pc[p] = "test" =>
          IF targets_left[p] > 0
          THEN /\ pc'[p] = "test"
               /\ targets_left'[p] = targets_left[p] - 1
               /\ rc'[p] \in TestRcs
               /\ combined_rc'[p] =
                     IF combined_rc[p] # 0 THEN combined_rc[p] ELSE rc'[p]
               /\ combined_rc'[p] = 0 <=> (combined_rc[p] = 0 /\ rc'[p] = 0)
          ELSE /\ pc'[p] = "thresholds"
               /\ combined_rc'[p] = combined_rc[p]
               /\ summary'[p].test_rc = << combined_rc[p] >>

\* C28: the combined test_rc is 0 exactly when every target returned 0 and
\* else the return code of the first target that failed (124 for a
\* timeout); every target is run, also after a failure; and an invocation
\* with a test_rc other than 0 ends tests_failed.
C28_TestRcAggregation ==
    /\ [][\A p \in Procs : TestLoopStep(p)]_vars
    /\ [](\A p \in Procs :
             /\ Gated(p) => summary[p].test_rc = << combined_rc[p] >>
             /\ (Returned(p) /\ TestsFailed(p))
                   => /\ summary[p].status = "tests_failed"
                      /\ SummaryJsonSays(p, "tests_failed"))

\* C28 witness: the first target timed out, the second was run all the same
\* and returned 1; combined_rc is still 124.
C28_Witness ==
    /\ pc[1] = "test"
    /\ targets_left[1] = 0
    /\ combined_rc[1] = 124
    /\ rc[1] = 1

\* C29: the status becomes coverage_overridden only with
\* COVERAGE_OVERRIDE_ALLOW set to a value whose strip() is none of '0', '',
\* 'false', 'False'; without such a value an invocation leaves the audit log
\* as it found it and, with passing tests and a failed gate, ends
\* coverage_failed with exit code 2, reason or no reason.
C29_AllowRequired ==
    \A p \in Procs :
        /\ (\/ override_used[p]
            \/ status[p] = "coverage_overridden"
            \/ summary[p].status = "coverage_overridden"
            \/ SummaryJsonSays(p, "coverage_overridden"))
           => AllowGiven(p)
        /\ (run_no[p] > 0 /\ ~AllowGiven(p)) =>
              /\ audit_log = log_at_start[p]
              /\ override_record[p] = <<>>
              /\ (/\ Returned(p)
                  /\ TestsPassed(p)
                  /\ summary[p].threshold_ok = <<FALSE>>)
                    => /\ summary[p].status = "coverage_failed"
                       /\ SummaryJsonSays(p, "coverage_failed")
                       /\ exit_code[p] = <<2>>

\* C29 witness: COVERAGE_OVERRIDE_ALLOW is ' 0 ', a reason is supplied, and
\* the second invocation ended coverage_failed with the log still empty.
C29_Witness ==
    /\ Returned(1)
    /\ run_no[1] = 2
    /\ override_allow(1) = Str(<<" ", "0", " ">>)
    /\ ReasonGiven(1)
    /\ TestsPassed(1)
    /\ summary[1].status = "coverage_failed"
    /\ exit_code[1] = <<2>>
    /\ audit_log = <<>>

\* The gate of the invocation of p was evaluated on a snapshot and the axis
\* with percentage pct passed its gating minimum min.
AxisPassed(p, pct, min) ==
    /\ Gated(p)
    /\ coverage[p] # <<>>
    /\ Gating(min)
    /\ Meets(pct, min)

\* covered / valid, exactly, is at least the minimum min less slack
\* two-hundredths of a hundredth of a percentage point.
ExactMeets(covered, valid, min, slack) ==
    2 * covered * 10000 >= (2 * Float(min)[1] - slack) * valid

\* C30, as stated: whenever an axis passes its enabled minimum t, the exact
\* ratio meets it: covered * 100 >= t * valid.
C30_RoundingSafe ==
    \A p \in Procs :
        /\ AxisPassed(p, coverage[p][1].line_pct, lines_min(p))
              => ExactMeets(coverage[p][1].lines_covered,
                            coverage[p][1].lines_valid, lines_min(p), 0)
        /\ AxisPassed(p, coverage[p][1].branch_pct, branches_min(p))
              => ExactMeets(coverage[p][1].branches_covered,
                            coverage[p][1].branches_valid, branches_min(p), 0)

\* C30, amended: whenever an axis passes its enabled minimum t, the exact
\* ratio falls short of t by at most 0.005 percentage points:
\* covered * 100 >= (t - 0.005) * valid.
C30_RoundingSlack ==
    \A p \in Procs :
        /\ AxisPassed(p, coverage[p][1].line_pct, lines_min(p))
              => ExactMeets(coverage[p][1].lines_covered,
                            coverage[p][1].lines_valid, lines_min(p), 1)
        /\ AxisPassed(p, coverage[p][1].branch_pct, branches_min(p))
              => ExactMeets(coverage[p][1].branches_covered,
                            coverage[p][1].branches_valid, branches_min(p), 1)

\* C30 witness: two lines of three are covered, lines_min is '66.67', the
\* gate passed and the invocation returned ok.
C30_Witness ==
    /\ Returned(1)
    /\ lines_min(1) = <<"66.67">>
    /\ coverage[1] # <<>>
    /\ coverage[1][1].lines_covered = 2
    /\ coverage[1][1].lines_valid = 3
    /\ coverage[1][1].line_pct = 6667
    /\ summary[1].threshold_ok = <<TRUE>>
    /\ summary[1].status = "ok"

====
